---- MODULE Spec2Model ----
(***************************************************************************)
(* The Telegram backend of kutana (src/kutana/backends/telegram.py) as a   *)
(* state machine.  One adapter object; the coroutines that run on it       *)
(* (acquire_updates, execute_send, execute_request, on_start, on_shutdown) *)
(* are processes whose steps are the stretches of code between two awaits. *)
(* What the provider, the sink and the event loop do at an await (the      *)
(* response, an exception, a cancellation) is chosen nondeterministically. *)
(*                                                                         *)
(* The callers are the runtime's: on_start and on_shutdown are called once *)
(* per adapter, no coroutine is started after on_shutdown (those in flight *)
(* go on), acquire_updates is called again whenever it has ended, and each *)
(* member of Senders is one invocation of execute_send.  The provider is   *)
(* not trusted: a getUpdates response is any list of updates, in any       *)
(* order, with any update_id; the entities of a message are counted in     *)
(* UTF-16 code units, as the Bot API counts them.                          *)
(*                                                                         *)
(* Specifications: SpecPoll is the ingestion loop alone, SpecSend one      *)
(* execute_send with every kind of argument, SpecGate several execute_send *)
(* side by side (SpecGateFair: the same with progress), SpecText the       *)
(* normalizer on messages with text, Spec all coroutines of the adapter    *)
(* together.                                                               *)
(***************************************************************************)
EXTENDS Integers, Sequences, FiniteSets, TLC

(* ------------------------------ bounds -------------------------------- *)

\* update_id values the provider may use: 0..MaxId
MaxId == 2
\* longest getUpdates response
MaxBatch == 3
\* longest attachment list handed to one execute_send
MaxAtts == 2
\* number of concurrent execute_send invocations
NumSenders == 2
\* longest message text, in words
MaxWords == 3

(* ------------------------- strings as characters ---------------------- *)

\* Attachment type names are tuples of characters, so that capitalize()
\* and the f-string of line 274 are computed and not looked up.
audio == <<"a", "u", "d", "i", "o">>
document == <<"d", "o", "c", "u", "m", "e", "n", "t">>
photo == <<"p", "h", "o", "t", "o">>
sticker == <<"s", "t", "i", "c", "k", "e", "r">>
video == <<"v", "i", "d", "e", "o">>
voice == <<"v", "o", "i", "c", "e">>
doc == <<"d", "o", "c">>
image == <<"i", "m", "a", "g", "e">>
location == <<"l", "o", "c", "a", "t", "i", "o", "n">>

SUPPORTED_ATTACHMENT_TYPES == {audio, document, photo, sticker, video, voice}

ATTACHMENT_TYPE_ALIASES == [t \in {doc, image} |-> IF t = doc THEN document ELSE photo]

\* lines 269-272 without the alias table: the type is taken as it is
alias_get_identity(t) == t

\* dict.get(key, default) on the alias table (lines 269-272)
alias_get(t) == IF t \in DOMAIN ATTACHMENT_TYPE_ALIASES THEN ATTACHMENT_TYPE_ALIASES[t] ELSE t

lower_letters == <<"a", "b", "c", "d", "e", "f", "g", "h", "i", "j", "k", "l", "m",
                   "n", "o", "p", "q", "r", "s", "t", "u", "v", "w", "x", "y", "z">>

upper_letters == <<"A", "B", "C", "D", "E", "F", "G", "H", "I", "J", "K", "L", "M",
                   "N", "O", "P", "Q", "R", "S", "T", "U", "V", "W", "X", "Y", "Z">>

index_in(letters, c) == CHOOSE k \in DOMAIN letters : letters[k] = c

\* str.upper() and str.lower() on one character
upper(c) ==
    IF \E k \in DOMAIN lower_letters : lower_letters[k] = c
    THEN upper_letters[index_in(lower_letters, c)]
    ELSE c

lower(c) ==
    IF \E k \in DOMAIN upper_letters : upper_letters[k] = c
    THEN lower_letters[index_in(upper_letters, c)]
    ELSE c

\* str.capitalize(): first character upper case, the rest lower case
capitalize(t) == [k \in DOMAIN t |-> IF k = 1 THEN upper(t[k]) ELSE lower(t[k])]

\* line 274: f"send{attachment_type.capitalize()}"
send_method(attachment_type) == <<"s", "e", "n", "d">> \o capitalize(attachment_type)

\* line 254: the method name of the text call
sendMessage == <<"s", "e", "n", "d", "M", "e", "s", "s", "a", "g", "e">>

text == <<"t", "e", "x", "t">>

(* ------------------------------ state --------------------------------- *)

VARIABLES
    \* the adapter object (Telegram.__init__)
    offset, session, is_session_local, username, api_messages_lock,
    \* asyncio.Lock held in api_messages_lock: its flag and its FIFO of waiters
    locked, waiters,
    \* acquire_updates: position, the offset sent, the response, the loop
    \* index, what ended the await, how the coroutine ended
    ppc, req_offset, response, idx, pawait, poutcome, pexit,
    \* the sink as the caller sees it: updates handed to submit_update in
    \* this iteration, how many of these calls returned, cooldown taken
    submitted, acked, cooled,
    \* execute_send, per invocation: position, arguments, loop index,
    \* calls issued, result list, exception raised
    spc, message, attachments, si, calls, result, serr,
    \* the wire as the provider sees the send-class calls: the last event,
    \* and the event that preceded the most recent send-class call
    wire_last, wire_before_call,
    \* execute_request, on_start, on_shutdown
    rpc, start_pc, stop_pc

adapter_vars == <<offset, session, is_session_local, username, api_messages_lock>>
lock_vars == <<locked, waiters>>
poll_vars == <<ppc, req_offset, response, idx, pawait, poutcome, pexit, submitted, acked, cooled>>
send_vars == <<spc, message, attachments, si, calls, result, serr>>
wire_vars == <<wire_last, wire_before_call>>
life_vars == <<rpc, start_pc, stop_pc>>

vars == <<adapter_vars, lock_vars, poll_vars, send_vars, wire_vars, life_vars>>

Senders == 1..NumSenders

(* ------------------------------ inputs -------------------------------- *)

UpdateIds == 0..MaxId

\* what a raw update holds besides its update_id: no "message" key at all,
\* a message of a private chat, and a "message" that lacks its "chat"
no_message == [kind |-> "none", chat |-> "none", text |-> <<>>, entities |-> <<>>]

plain_message == [kind |-> "message", chat |-> "private", text |-> <<>>, entities |-> <<>>]

malformed_message == [kind |-> "message", chat |-> "missing", text |-> <<>>, entities |-> <<>>]

\* a raw update: its update_id and its body
RawUpdates == [update_id : UpdateIds, body : {plain_message, no_message, malformed_message}]

SeqsUpTo(S, n) == UNION {[1..k -> S] : k \in 0..n}

\* any response the provider can make to getUpdates
Batches == SeqsUpTo(RawUpdates, MaxBatch)

\* a few responses, ascending and not, for the specification that runs
\* every coroutine side by side
FewBatches ==
    {batch \in SeqsUpTo([update_id : 0..1, body : {plain_message}], 2) :
        Len(batch) = 2 => batch[1].update_id # batch[2].update_id}

\* Message texts are tuples of characters too. The words a text is made of:
\* the command /start addressed to this bot, to another bot and to "None", a
\* plain word, and a word that starts with a character outside the Basic
\* Multilingual Plane (one character of a Python str, two UTF-16 units)
slash_start == <<"/", "s", "t", "a", "r", "t">>

None_str == <<"N", "o", "n", "e">>

mybot == <<"m", "y", "b", "o", "t">>

otherbot == <<"o", "t", "h", "e", "r", "b", "o", "t">>

start_mybot == slash_start \o <<"@">> \o mybot

start_otherbot == slash_start \o <<"@">> \o otherbot

start_None == slash_start \o <<"@">> \o None_str

hello == <<" ", "h", "e", "l", "l", "o">>

grin == <<"U+1F600", " ">>

Words == {start_mybot, start_otherbot, start_None, hello, grin}

RECURSIVE concat(_)
\* the text made of a list of words
concat(ws) == IF ws = <<>> THEN <<>> ELSE Head(ws) \o concat(Tail(ws))

RECURSIVE utf16_len(_)
\* the length of a text in UTF-16 code units, the unit in which the provider
\* counts the offset and the length of an entity
utf16_len(t) ==
    IF t = <<>> THEN 0
    ELSE (IF Head(t) = "U+1F600" THEN 2 ELSE 1) + utf16_len(Tail(t))

\* the entity the provider declares for word number w of a text
entity_of(ws, w, type) ==
    [type |-> type,
     offset |-> utf16_len(concat(SubSeq(ws, 1, w - 1))),
     length |-> utf16_len(ws[w])]

\* what the provider declares for a word: no entity, a bot_command entity,
\* or an entity of another type
Tags == {"none", "bot_command", "bold"}

\* the tag of a word as the provider sets it: commands are bot_command
\* entities, other words are no entity
tag_of(word) == IF word \in {hello, grin} THEN "none" ELSE "bot_command"

RECURSIVE declared(_, _, _)
\* the entity list of a text, for the tags of its words from word w on
declared(ws, tags, w) ==
    IF w > Len(ws) THEN <<>>
    ELSE (IF tags[w] = "none" THEN <<>> ELSE <<entity_of(ws, w, tags[w])>>)
             \o declared(ws, tags, w + 1)

\* the entity list in the order of the text, or in the opposite order
in_order(entities, reversed) ==
    IF reversed
    THEN [k \in DOMAIN entities |-> entities[Len(entities) + 1 - k]]
    ELSE entities

\* the messages with text: a text of some words; in a group chat with any
\* tag on each word and the entities in either order, in a private chat
\* with the tags the provider sets
TextMessages ==
    {[kind |-> "message", chat |-> "group", text |-> concat(ws),
      entities |-> in_order(declared(ws, tags, 1), reversed)] :
        ws \in SeqsUpTo(Words, MaxWords), tags \in [1..MaxWords -> Tags],
        reversed \in BOOLEAN}
    \cup {[kind |-> "message", chat |-> "private", text |-> concat(ws),
           entities |-> declared(ws, [w \in DOMAIN ws |-> tag_of(ws[w])], 1)] :
            ws \in SeqsUpTo(Words, MaxWords)}

\* responses of one update that carries such a message
TextBatches == {<<[update_id |-> 0, body |-> m]>> : m \in TextMessages}

\* the exceptions _request can raise out of its await (lines 64-68), and
\* the cancellation the event loop can deliver there
RequestErrors == {"JSONDecodeError", "ClientError", "RequestException", "CancelledError"}

\* what the caller may put in an attachment list: Attachment objects, new
\* or uploaded, of some type, and a value that is no Attachment
AttachmentTypes == {document, doc, photo, image, location}

Attachments == [cls : {"Attachment"}, type : AttachmentTypes, uploaded : BOOLEAN]

not_an_attachment == [cls |-> "str", type |-> <<>>, uploaded |-> FALSE]

Items == Attachments \cup {not_an_attachment}

\* the `attachments` argument: a list, or one bare value
AttachmentArgs ==
    [scalar : {FALSE}, value : SeqsUpTo(Items, MaxAtts)]
        \cup [scalar : {TRUE}, value : Items]

\* the arguments of one execute_send: is the text non-empty, and the attachments
SendArgs == [message : BOOLEAN, attachments : AttachmentArgs]

\* a few execute_send arguments, for the specifications that run several
\* coroutines side by side
FewSendArgs ==
    [message : BOOLEAN,
     attachments : {[scalar |-> FALSE, value |-> <<>>],
                    [scalar |-> FALSE,
                     value |-> <<[cls |-> "Attachment", type |-> photo, uploaded |-> TRUE]>>]}]
        \cup {[message |-> FALSE,
               attachments |-> [scalar |-> TRUE,
                                value |-> [cls |-> "Attachment", type |-> location,
                                           uploaded |-> FALSE]]]}

(* --------------------------- pure functions --------------------------- *)

\* Telegram._request, lines 57-58: the session is created on first use
_request_session(s) == IF s = "none" THEN "open" ELSE s

\* line 207: raw_update["message"]["chat"] raises KeyError when the message
\* has no "chat"
_make_update_raises(raw_update) ==
    /\ raw_update.body.kind = "message"
    /\ raw_update.body.chat = "missing"

\* lines 177 and 187, text[a:b] of Python, for a and b not negative
slice(t, a, b) == SubSeq(t, a + 1, IF b < Len(t) THEN b ELSE Len(t))

\* line 179, str.endswith
endswith(t, suffix) ==
    /\ Len(t) >= Len(suffix)
    /\ SubSeq(t, Len(t) - Len(suffix) + 1, Len(t)) = suffix

\* lines 179-180, f"@{self.username}": the f-string formats None as "None"
mention(u) == <<"@">> \o (IF u = "none" THEN None_str ELSE mybot)

\* line 180 with the whole command cut away instead of the mention
strip_suffix_all(command, suffix) == <<>>

\* line 180, command[:-len(suffix)]
strip_suffix(command, suffix) == SubSeq(command, 1, Len(command) - Len(suffix))

RECURSIVE sorted_by_offset(_)
\* line 173, sorted(entities, key=offset): a stable sort
sorted_by_offset(entities) ==
    IF entities = <<>> THEN <<>>
    ELSE LET entity == Head(entities)
             rest == sorted_by_offset(Tail(entities))
             before(e) == e.offset < entity.offset
             after(e) == e.offset >= entity.offset
         IN SelectSeq(rest, before) \o <<entity>> \o SelectSeq(rest, after)

\* lines 174-185: one turn of the loop, from the locals before it to the
\* locals after it
extract_step(raw_text, entity, st, u) ==
    IF entity.type = "bot_command"
    THEN LET new_last_index == entity.offset + entity.length
             command == slice(raw_text, st.last_index, new_last_index)
         IN IF endswith(command, mention(u))
            THEN [final_text |-> st.final_text \o strip_suffix(command, mention(u)),
                  last_index |-> new_last_index,
                  bot_mentioned |-> TRUE]
            ELSE [final_text |-> st.final_text \o command,
                  last_index |-> new_last_index,
                  bot_mentioned |-> st.bot_mentioned]
    ELSE st

RECURSIVE extract_loop(_, _, _, _)
\* lines 173-185: the loop over the sorted entities
extract_loop(raw_text, entities, st, u) ==
    IF entities = <<>> THEN st
    ELSE extract_loop(raw_text, Tail(entities), extract_step(raw_text, Head(entities), st, u), u)

\* Telegram._extract_text, lines 161-187, for a message msg and the username u
\* the adapter holds: the emitted text and the bot_mentioned entry of meta
_extract_text(msg, u) ==
    IF msg.entities = <<>>
    THEN [text |-> msg.text, bot_mentioned |-> FALSE]
    ELSE LET st == extract_loop(msg.text, sorted_by_offset(msg.entities),
                                [final_text |-> <<>>, last_index |-> 0,
                                 bot_mentioned |-> FALSE], u)
         IN [text |-> st.final_text \o slice(msg.text, st.last_index, Len(msg.text)),
             bot_mentioned |-> st.bot_mentioned]

\* Telegram._make_update, lines 189-225: the kind of the result, the receiver
\* kind, the text and the bot_mentioned entry of meta; the payload is kept raw
_make_update(raw_update) ==
    IF raw_update.body.kind # "message"
    THEN [type |-> "UPD", raw |-> raw_update, receiver_type |-> "none",
          text |-> <<>>, bot_mentioned |-> FALSE]
    ELSE IF raw_update.body.chat = "private"
    THEN [type |-> "MSG", raw |-> raw_update, receiver_type |-> "SOLO",
          text |-> raw_update.body.text, bot_mentioned |-> FALSE]
    ELSE LET extracted == _extract_text(raw_update.body, username)
         IN [type |-> "MSG", raw |-> raw_update, receiver_type |-> "MULTI",
             text |-> extracted.text, bot_mentioned |-> extracted.bot_mentioned]

\* variants of line 245 with an off-by-one slip, in either direction
next_offset_skip(update) == update.update_id + 2

next_offset_same(update) == update.update_id

\* line 245: the value assigned to self.offset after an item
next_offset(update) == update.update_id + 1

\* lines 232-241 with the generic handler of lines 238-241 returning at once,
\* without the pause of line 240
acquire_updates_except_no_cooldown(exc) ==
    CASE exc = "CancelledError" -> "raise"
      [] OTHER -> "return"

\* lines 232-241 with only the decode failure in the clause of lines 232-233:
\* a transport failure falls through to the generic handler
acquire_updates_except_decode_only(exc) ==
    CASE exc = "JSONDecodeError" -> "return"
      [] exc = "CancelledError" -> "raise"
      [] OTHER -> "cooldown"

\* lines 232-241 without the clause of lines 235-236: a cancellation falls
\* through to the generic handler
acquire_updates_except_generic(exc) ==
    CASE exc \in {"JSONDecodeError", "ClientError"} -> "return"
      [] OTHER -> "cooldown"

\* lines 232-241: which handler of acquire_updates an exception reaches
acquire_updates_except(exc) ==
    CASE exc \in {"JSONDecodeError", "ClientError"} -> "return"
      [] exc = "CancelledError" -> "raise"
      [] OTHER -> "cooldown"

(* ------------------------------- Init --------------------------------- *)

Init ==
    /\ offset = 0
    /\ session \in {"none", "open"}
    /\ is_session_local = (session = "none")
    /\ username = "none"
    /\ api_messages_lock = "none"
    /\ locked = FALSE
    /\ waiters = <<>>
    /\ ppc = "idle"
    /\ req_offset = 0
    /\ response = <<>>
    /\ idx = 0
    /\ pawait = "none"
    /\ poutcome = "none"
    /\ pexit = "none"
    /\ submitted = <<>>
    /\ acked = 0
    /\ cooled = FALSE
    /\ spc = [s \in Senders |-> "idle"]
    /\ message = [s \in Senders |-> FALSE]
    /\ attachments = [s \in Senders |-> [scalar |-> FALSE, value |-> <<>>]]
    /\ si = [s \in Senders |-> 0]
    /\ calls = [s \in Senders |-> <<>>]
    /\ result = [s \in Senders |-> <<>>]
    /\ serr = [s \in Senders |-> "none"]
    /\ wire_last = "none"
    /\ wire_before_call = "none"
    /\ rpc = "idle"
    /\ start_pc = "new"
    /\ stop_pc = "running"

(* --------------------------- acquire_updates -------------------------- *)

\* lines 227-231 up to the await: the runtime calls acquire_updates and the
\* coroutine posts getUpdates with the current offset
acquire_updates_call ==
    /\ ppc = "idle"
    /\ stop_pc = "running"
    /\ ppc' = "getUpdates"
    /\ req_offset' = offset
    /\ session' = _request_session(session)
    /\ pawait' = "none"
    /\ poutcome' = "none"
    /\ pexit' = "none"
    /\ response' = <<>>
    /\ idx' = 0
    /\ submitted' = <<>>
    /\ acked' = 0
    /\ cooled' = FALSE
    /\ UNCHANGED <<offset, is_session_local, username, api_messages_lock>>
    /\ UNCHANGED <<lock_vars, send_vars, wire_vars, life_vars>>

\* lines 243-244 for the item at position i of the response: normalize it and
\* hand it to the sink; an exception of _make_update leaves acquire_updates
\* before the sink is called
submit_item(batch, i) ==
    /\ idx' = i
    /\ IF _make_update_raises(batch[i])
       THEN /\ ppc' = "idle"
            /\ pexit' = "KeyError"
            /\ UNCHANGED submitted
       ELSE /\ submitted' = Append(submitted, _make_update(batch[i]))
            /\ ppc' = "submit_update"
            /\ UNCHANGED pexit

\* getUpdates_ok with the cursor moved past the whole batch on receipt
getUpdates_ok_cursor_on_receipt(from) ==
    /\ ppc = "getUpdates"
    /\ \E batch \in from :
        /\ response' = batch
        /\ acked' = 0
        /\ pawait' = "getUpdates"
        /\ poutcome' = "ok"
        /\ IF batch = <<>>
           THEN /\ ppc' = "idle"
                /\ pexit' = "return"
                /\ idx' = 0
                /\ UNCHANGED <<submitted, offset>>
           ELSE /\ submit_item(batch, 1)
                /\ offset' = next_offset(batch[Len(batch)])
    /\ UNCHANGED <<req_offset, cooled>>
    /\ UNCHANGED <<session, is_session_local, username, api_messages_lock>>
    /\ UNCHANGED <<lock_vars, send_vars, wire_vars, life_vars>>

\* lines 229-231 returning, then 243-244 up to the first sink await
getUpdates_ok(from) ==
    /\ ppc = "getUpdates"
    /\ \E batch \in from :
        /\ response' = batch
        /\ acked' = 0
        /\ pawait' = "getUpdates"
        /\ poutcome' = "ok"
        /\ IF batch = <<>>
           THEN /\ ppc' = "idle"
                /\ pexit' = "return"
                /\ idx' = 0
                /\ UNCHANGED submitted
           ELSE submit_item(batch, 1)
    /\ UNCHANGED <<req_offset, cooled>>
    /\ UNCHANGED <<adapter_vars, lock_vars, send_vars, wire_vars, life_vars>>

\* lines 232-241: the getUpdates await raises
getUpdates_raise ==
    /\ ppc = "getUpdates"
    /\ \E exc \in RequestErrors :
        /\ pawait' = "getUpdates"
        /\ poutcome' = exc
        /\ CASE acquire_updates_except(exc) = "return" ->
                  ppc' = "idle" /\ pexit' = "return"
             [] acquire_updates_except(exc) = "raise" ->
                  ppc' = "idle" /\ pexit' = exc
             [] OTHER ->
                  ppc' = "sleep" /\ UNCHANGED pexit
    /\ UNCHANGED <<req_offset, response, idx, submitted, acked, cooled>>
    /\ UNCHANGED <<adapter_vars, lock_vars, send_vars, wire_vars, life_vars>>

\* lines 240-241: the cooldown pause ends and the coroutine returns
cooldown_done ==
    /\ ppc = "sleep"
    /\ cooled' = TRUE
    /\ ppc' = "idle"
    /\ pexit' = "return"
    /\ UNCHANGED <<req_offset, response, idx, pawait, poutcome, submitted, acked>>
    /\ UNCHANGED <<adapter_vars, lock_vars, send_vars, wire_vars, life_vars>>

\* line 240: the coroutine is cancelled during the cooldown pause
cooldown_cancelled ==
    /\ ppc = "sleep"
    /\ ppc' = "idle"
    /\ pexit' = "CancelledError"
    /\ pawait' = "sleep"
    /\ poutcome' = "CancelledError"
    /\ UNCHANGED <<req_offset, response, idx, submitted, acked, cooled>>
    /\ UNCHANGED <<adapter_vars, lock_vars, send_vars, wire_vars, life_vars>>

\* lines 244-245: the sink returns, the cursor is set, and the loop goes on
\* to the next item or ends
submit_update_done ==
    /\ ppc = "submit_update"
    /\ acked' = acked + 1
    /\ offset' = next_offset(response[idx])
    /\ pawait' = "submit_update"
    /\ poutcome' = "ok"
    /\ IF idx < Len(response)
       THEN submit_item(response, idx + 1)
       ELSE /\ ppc' = "idle"
            /\ pexit' = "return"
            /\ UNCHANGED <<idx, submitted>>
    /\ UNCHANGED <<req_offset, response, cooled>>
    /\ UNCHANGED <<session, is_session_local, username, api_messages_lock>>
    /\ UNCHANGED <<lock_vars, send_vars, wire_vars, life_vars>>

\* line 244: the sink raises, or the coroutine is cancelled while the sink
\* runs; nothing in acquire_updates catches it
submit_update_raise ==
    /\ ppc = "submit_update"
    /\ \E exc \in {"SinkError", "CancelledError"} :
        /\ poutcome' = exc
        /\ pexit' = exc
    /\ pawait' = "submit_update"
    /\ ppc' = "idle"
    /\ UNCHANGED <<req_offset, response, idx, submitted, acked, cooled>>
    /\ UNCHANGED <<adapter_vars, lock_vars, send_vars, wire_vars, life_vars>>

NextPoll ==
    \/ acquire_updates_call
    \/ getUpdates_ok(Batches)
    \/ getUpdates_raise
    \/ cooldown_done
    \/ cooldown_cancelled
    \/ submit_update_done
    \/ submit_update_raise

\* the ingestion loop alone, against any provider and any sink
SpecPoll == Init /\ [][NextPoll]_vars

(* ----------------------------- execute_send --------------------------- *)

\* lines 262-263: a bare int, str or Attachment becomes a one-element tuple
as_tuple(arg) == IF arg.scalar THEN <<arg.value>> ELSE arg.value

no_call == [method |-> <<>>, field |-> <<>>, by |-> "none"]

\* lines 266-294 without the test of lines 287-288: anything new is uploaded
attachment_step_unchecked(attachment) ==
    LET attachment_type == alias_get(attachment.type)
    IN  IF attachment.cls # "Attachment"
        THEN [to |-> "raise", err |-> "ValueError", call |-> no_call]
        ELSE [to |-> "request", err |-> "none",
              call |-> [method |-> send_method(attachment_type),
                        field |-> attachment_type,
                        by |-> IF attachment.uploaded THEN "id" ELSE "file"]]

\* lines 266-294 for one attachment, up to the await or the raise: the call
\* to make, by reference for an uploaded attachment and by content for a new
\* one of a supported type, or the ValueError
attachment_step(attachment) ==
    LET attachment_type == alias_get(attachment.type)
    IN  IF attachment.cls # "Attachment"
        THEN [to |-> "raise", err |-> "ValueError", call |-> no_call]
        ELSE IF attachment.uploaded
        THEN [to |-> "request", err |-> "none",
              call |-> [method |-> send_method(attachment_type),
                        field |-> attachment_type, by |-> "id"]]
        ELSE IF attachment_type \notin SUPPORTED_ATTACHMENT_TYPES
        THEN [to |-> "raise", err |-> "ValueError", call |-> no_call]
        ELSE [to |-> "request", err |-> "none",
              call |-> [method |-> send_method(attachment_type),
                        field |-> attachment_type, by |-> "file"]]

\* line 265 walking the attachments from the last to the first
loop_head_reversed(atts, i) ==
    IF i > Len(atts)
    THEN [to |-> "return", err |-> "none", call |-> no_call]
    ELSE attachment_step(atts[Len(atts) + 1 - i])

\* lines 265-298 at the head of the loop, position i: the return of line 298
\* after the last attachment, else the step for attachment i
loop_head(atts, i) ==
    IF i > Len(atts)
    THEN [to |-> "return", err |-> "none", call |-> no_call]
    ELSE attachment_step(atts[i])

\* asyncio.Lock.acquire (line 252): the lock is taken at once when it is
\* free and nobody waits for it
can_acquire_unguarded == TRUE

can_acquire == ~locked /\ waiters = <<>>

\* _request as called from execute_send (lines 254, 277, 290): the call goes
\* out while the lock is held; `issued` are this invocation's earlier calls
\* and `last` is what the provider saw last
issue(s, call, i, issued, last) ==
    /\ spc' = [spc EXCEPT ![s] = "request"]
    /\ si' = [si EXCEPT ![s] = i]
    /\ calls' = [calls EXCEPT ![s] = Append(issued, call)]
    /\ serr' = [serr EXCEPT ![s] = "none"]
    /\ session' = _request_session(session)
    /\ locked' = TRUE
    /\ wire_before_call' = last
    /\ wire_last' = "call"

\* the block of line 252 without the release on an exception: the lock is
\* given back only by the return of line 298
leave_locked_on_error(s, pc, err, i, issued, last) ==
    /\ spc' = [spc EXCEPT ![s] = pc]
    /\ si' = [si EXCEPT ![s] = i]
    /\ calls' = [calls EXCEPT ![s] = issued]
    /\ serr' = [serr EXCEPT ![s] = err]
    /\ locked' = (err # "none")
    /\ wire_last' = last
    /\ UNCHANGED <<session, wire_before_call>>

\* the `async with` block of line 252 is left, by the return of line 298 or
\* by an exception: the lock is released
leave(s, pc, err, i, issued, last) ==
    /\ spc' = [spc EXCEPT ![s] = pc]
    /\ si' = [si EXCEPT ![s] = i]
    /\ calls' = [calls EXCEPT ![s] = issued]
    /\ serr' = [serr EXCEPT ![s] = err]
    /\ locked' = FALSE
    /\ wire_last' = last
    /\ UNCHANGED <<session, wire_before_call>>

\* lines 262-298 from loop position i on
advance(s, arg, i, issued, last) ==
    LET h == loop_head(as_tuple(arg), i)
    IN  CASE h.to = "request" -> issue(s, h.call, i, issued, last)
          [] h.to = "return" -> leave(s, "done", "none", i, issued, last)
          [] OTHER -> leave(s, "raised", h.err, i, issued, last)

\* lines 253-258, then the loop when there is no text
body(s, msg, arg) ==
    IF msg
    THEN issue(s, [method |-> sendMessage, field |-> text, by |-> "text"], 0,
               <<>>, wire_last)
    ELSE advance(s, arg, 1, <<>>, wire_last)

\* lines 247-252: a caller makes invocation s of execute_send; without a lock the
\* `async with` raises, with a free lock the body starts, otherwise the
\* coroutine queues on the lock
execute_send_call(s, from) ==
    /\ spc[s] = "idle"
    /\ stop_pc = "running"
    /\ \E args \in from :
        /\ message' = [message EXCEPT ![s] = args.message]
        /\ attachments' = [attachments EXCEPT ![s] = args.attachments]
        /\ result' = [result EXCEPT ![s] = <<>>]
        /\ IF api_messages_lock = "none"
           THEN /\ spc' = [spc EXCEPT ![s] = "raised"]
                /\ serr' = [serr EXCEPT ![s] = "AttributeError"]
                /\ si' = [si EXCEPT ![s] = 0]
                /\ calls' = [calls EXCEPT ![s] = <<>>]
                /\ UNCHANGED <<session, locked, waiters, wire_vars>>
           ELSE IF can_acquire
           THEN /\ body(s, args.message, args.attachments)
                /\ UNCHANGED waiters
           ELSE /\ spc' = [spc EXCEPT ![s] = "acquire"]
                /\ serr' = [serr EXCEPT ![s] = "none"]
                /\ si' = [si EXCEPT ![s] = 0]
                /\ calls' = [calls EXCEPT ![s] = <<>>]
                /\ waiters' = Append(waiters, s)
                /\ UNCHANGED <<session, locked, wire_vars>>
    /\ UNCHANGED <<offset, is_session_local, username, api_messages_lock>>
    /\ UNCHANGED <<poll_vars, life_vars>>

\* line 252: the lock was released and the first waiter takes it
lock_acquired(s) ==
    /\ spc[s] = "acquire"
    /\ ~locked
    /\ waiters # <<>>
    /\ Head(waiters) = s
    /\ waiters' = Tail(waiters)
    /\ body(s, message[s], attachments[s])
    /\ UNCHANGED <<message, attachments, result>>
    /\ UNCHANGED <<offset, is_session_local, username, api_messages_lock>>
    /\ UNCHANGED <<poll_vars, life_vars>>

\* line 252: the invocation is cancelled while it waits for the lock
acquire_cancelled(s) ==
    /\ spc[s] = "acquire"
    /\ spc' = [spc EXCEPT ![s] = "raised"]
    /\ serr' = [serr EXCEPT ![s] = "CancelledError"]
    /\ waiters' = SelectSeq(waiters, LAMBDA w : w # s)
    /\ UNCHANGED <<message, attachments, si, calls, result>>
    /\ UNCHANGED <<adapter_vars, locked, poll_vars, wire_vars, life_vars>>

\* lines 254, 277, 290: the provider answers ok and the response is
\* appended to the result; lines 260, 283, 296: the pacing pause starts
request_ok(s) ==
    /\ spc[s] = "request"
    /\ result' = [result EXCEPT ![s] = Append(@, calls[s][Len(calls[s])].method)]
    /\ spc' = [spc EXCEPT ![s] = "sleep"]
    /\ UNCHANGED <<message, attachments, si, calls, serr>>
    /\ UNCHANGED <<adapter_vars, lock_vars, poll_vars, wire_vars, life_vars>>

\* lines 254, 277, 290: _request raises, or the invocation is cancelled at
\* that await; execute_send catches nothing
request_raise(s) ==
    /\ spc[s] = "request"
    /\ \E exc \in RequestErrors :
        leave(s, "raised", exc, si[s], calls[s], wire_last)
    /\ UNCHANGED <<message, attachments, result>>
    /\ UNCHANGED <<offset, is_session_local, username, api_messages_lock>>
    /\ UNCHANGED <<waiters, poll_vars, life_vars>>

\* lines 260, 283, 296: the pacing pause is over; the loop goes on
sleep_done(s) ==
    /\ spc[s] = "sleep"
    /\ advance(s, attachments[s], si[s] + 1, calls[s], "pause")
    /\ UNCHANGED <<message, attachments, result>>
    /\ UNCHANGED <<offset, is_session_local, username, api_messages_lock>>
    /\ UNCHANGED <<waiters, poll_vars, life_vars>>

\* lines 260, 283, 296: the invocation is cancelled during the pacing pause
sleep_cancelled(s) ==
    /\ spc[s] = "sleep"
    /\ leave(s, "raised", "CancelledError", si[s], calls[s], wire_last)
    /\ UNCHANGED <<message, attachments, result>>
    /\ UNCHANGED <<offset, is_session_local, username, api_messages_lock>>
    /\ UNCHANGED <<waiters, poll_vars, life_vars>>

(* ------------------------------- on_start ----------------------------- *)

\* line 304 up to the await: the runtime calls on_start, once, and the
\* coroutine posts getMe
on_start_call ==
    /\ start_pc = "new"
    /\ stop_pc = "running"
    /\ start_pc' = "getMe"
    /\ session' = _request_session(session)
    /\ UNCHANGED <<offset, is_session_local, username, api_messages_lock>>
    /\ UNCHANGED <<rpc, stop_pc>>
    /\ UNCHANGED <<lock_vars, poll_vars, send_vars, wire_vars>>

\* lines 304-317: getMe answers; the username is kept and the lock created
getMe_ok ==
    /\ start_pc = "getMe"
    /\ start_pc' = "started"
    /\ username' = "mybot"
    /\ api_messages_lock' = "Lock"
    /\ locked' = FALSE
    /\ waiters' = <<>>
    /\ UNCHANGED <<offset, session, is_session_local>>
    /\ UNCHANGED <<rpc, stop_pc>>
    /\ UNCHANGED <<poll_vars, send_vars, wire_vars>>

\* getMe_raise for an on_start that creates the lock before it logs in
getMe_raise_lock_created ==
    /\ start_pc = "getMe"
    /\ start_pc' = "failed"
    /\ api_messages_lock' = "Lock"
    /\ UNCHANGED <<offset, session, is_session_local, username>>
    /\ UNCHANGED <<rpc, stop_pc>>
    /\ UNCHANGED <<lock_vars, poll_vars, send_vars, wire_vars>>

\* line 304: getMe raises or on_start is cancelled; lines 315-317 do not run
getMe_raise ==
    /\ start_pc = "getMe"
    /\ start_pc' = "failed"
    /\ UNCHANGED <<adapter_vars, rpc, stop_pc>>
    /\ UNCHANGED <<lock_vars, poll_vars, send_vars, wire_vars>>

NextStart ==
    \/ on_start_call
    \/ getMe_ok
    \/ getMe_raise

\* one execute_send at a time, with every argument
NextSend ==
    \/ NextStart
    \/ execute_send_call(1, SendArgs)
    \/ request_ok(1)
    \/ request_raise(1)
    \/ sleep_done(1)
    \/ sleep_cancelled(1)

SpecSend == Init /\ [][NextSend]_vars

\* execute_send invocations side by side
NextGate ==
    \/ NextStart
    \/ \E s \in Senders :
        \/ execute_send_call(s, FewSendArgs)
        \/ lock_acquired(s)
        \/ acquire_cancelled(s)
        \/ request_ok(s)
        \/ request_raise(s)
        \/ sleep_done(s)
        \/ sleep_cancelled(s)

SpecGate == Init /\ [][NextGate]_vars

(* ---------------------- execute_request, on_shutdown ------------------- *)

\* what invocation s does next without being cancelled: it takes the lock it
\* waits for, its outbound call ends, its pause ends
GateStep(s) ==
    \/ lock_acquired(s)
    \/ request_ok(s)
    \/ request_raise(s)
    \/ sleep_done(s)

\* SpecGate with the progress the event loop and the HTTP client give: a
\* coroutine that is ready to run is run (the loop serves its ready queue in
\* order), a sleep ends, and a request ends with an answer or an error (the
\* aiohttp session has a total timeout).  Cancellations are not forced.
SpecGateFair == SpecGate /\ \A s \in Senders : WF_vars(GateStep(s))

\* execute_request made to wait for the pacing lock, as execute_send does
execute_request_call_gated ==
    /\ rpc = "idle"
    /\ stop_pc = "running"
    /\ ~locked
    /\ rpc' = "request"
    /\ session' = _request_session(session)
    /\ UNCHANGED <<offset, is_session_local, username, api_messages_lock>>
    /\ UNCHANGED <<start_pc, stop_pc>>
    /\ UNCHANGED <<lock_vars, poll_vars, send_vars, wire_vars>>

\* lines 300-301 up to the await of _request
execute_request_call ==
    /\ rpc = "idle"
    /\ stop_pc = "running"
    /\ rpc' = "request"
    /\ session' = _request_session(session)
    /\ UNCHANGED <<offset, is_session_local, username, api_messages_lock>>
    /\ UNCHANGED <<start_pc, stop_pc>>
    /\ UNCHANGED <<lock_vars, poll_vars, send_vars, wire_vars>>

\* lines 300-301: _request returns its result, or raises
execute_request_end ==
    /\ rpc = "request"
    /\ rpc' \in {"done", "raised"}
    /\ UNCHANGED <<adapter_vars, start_pc, stop_pc>>
    /\ UNCHANGED <<lock_vars, poll_vars, send_vars, wire_vars>>

\* lines 338-340: a session the adapter made is closed; with no session
\* made yet, self.session is None and the call raises
on_shutdown ==
    /\ stop_pc = "running"
    /\ IF is_session_local
       THEN IF session = "none"
            THEN /\ stop_pc' = "raised"
                 /\ UNCHANGED session
            ELSE /\ stop_pc' = "stopped"
                 /\ session' = "closed"
       ELSE /\ stop_pc' = "stopped"
            /\ UNCHANGED session
    /\ UNCHANGED <<offset, is_session_local, username, api_messages_lock>>
    /\ UNCHANGED <<rpc, start_pc>>
    /\ UNCHANGED <<lock_vars, poll_vars, send_vars, wire_vars>>

\* the adapter with all its coroutines: the ingestion loop, one
\* execute_send, one execute_request, on_start and on_shutdown
Next ==
    \/ acquire_updates_call
    \/ getUpdates_ok(FewBatches)
    \/ getUpdates_raise
    \/ cooldown_done
    \/ cooldown_cancelled
    \/ submit_update_done
    \/ submit_update_raise
    \/ NextStart
    \/ execute_send_call(1, FewSendArgs)
    \/ request_ok(1)
    \/ request_raise(1)
    \/ sleep_done(1)
    \/ sleep_cancelled(1)
    \/ execute_request_call
    \/ execute_request_end
    \/ on_shutdown

Spec == Init /\ [][Next]_vars

NextText ==
    \/ NextStart
    \/ acquire_updates_call
    \/ getUpdates_ok(TextBatches)
    \/ submit_update_done

\* the normalizer: updates with a message text are polled and normalized,
\* before, during and after on_start
SpecText == Init /\ [][NextText]_vars

(* ------------------- properties of the ingestion loop ------------------ *)

\* the update_ids of a response are strictly ascending
Ascending(batch) ==
    \A i, j \in DOMAIN batch : i < j => batch[i].update_id < batch[j].update_id

\* a response as the provider's getUpdates contract describes it: ascending
\* update_ids, none below the offset that was requested
Conforming(batch, requested) ==
    /\ Ascending(batch)
    /\ \A i \in DOMAIN batch : batch[i].update_id >= requested

HighestUpdateId(batch) ==
    CHOOSE m \in {batch[i].update_id : i \in DOMAIN batch} :
        \A i \in DOMAIN batch : batch[i].update_id <= m

\* the iteration got a batch and ran to its end
IterationCompleted == ppc = "idle" /\ pexit = "return" /\ response # <<>>

\* the iteration was ended by the sink raising, or by a cancellation while
\* the sink was running
IterationInterrupted ==
    /\ ppc = "idle"
    /\ pawait = "submit_update"
    /\ pexit \in {"SinkError", "CancelledError"}

\* C1: an iteration that got a batch and whose sink never failed has handed
\* every item of the batch, normalized, to the sink exactly once and in the
\* order of the response, and ends with the cursor one past the highest
\* update_id of the batch.
C1_DeliveredOnceCursorPastHighest ==
    IterationCompleted =>
        /\ submitted = [i \in 1..Len(response) |-> _make_update(response[i])]
        /\ acked = Len(response)
        /\ offset = HighestUpdateId(response) + 1

\* C6: no step lowers the cursor, whatever the provider responds.
C6_CursorNeverDecreases == [][offset' >= offset]_vars

\* C7 as stated: whenever the cursor is past the update_id of an item of the
\* response, the sink call for that item has returned.
C7_CursorPastOnlyDelivered ==
    \A i \in DOMAIN response : offset > response[i].update_id => i <= acked

\* C7 as amended: for a response whose update_ids are ascending and not
\* below the requested offset, the cursor is past an item's update_id only
\* when the sink call for that item has returned; when the sink raises or
\* is cancelled on an item, the cursor is not past that item.
C7_CursorPastOnlyDeliveredConforming ==
    Conforming(response, req_offset) =>
        /\ \A i \in DOMAIN response : offset > response[i].update_id => i <= acked
        /\ IterationInterrupted => offset <= response[idx].update_id

\* C7 witness: a conforming batch interrupted after its first item
C7_Witness ==
    /\ IterationInterrupted
    /\ Conforming(response, req_offset)
    /\ acked >= 1
    /\ offset > response[1].update_id
    /\ offset <= response[idx].update_id

\* C8: when an iteration over an ascending batch is interrupted, every item
\* whose sink call had returned has an update_id below the cursor, and the
\* next getUpdates call requests an offset above all of them.
C8_DeliveredBelowCursor ==
    [][(IterationInterrupted /\ Ascending(response)) =>
          /\ \A j \in 1..acked : response[j].update_id < offset
          /\ ppc' = "getUpdates" =>
                \A j \in 1..acked : response[j].update_id < req_offset']_vars

\* C8 witness: an ascending batch interrupted with its first item delivered
\* and a later item not
C8_Witness ==
    /\ IterationInterrupted
    /\ Ascending(response)
    /\ acked >= 1
    /\ acked < Len(response)

\* C10: a cancellation raised at the getUpdates await leaves acquire_updates
\* as a cancellation, with no cooldown pause, nothing handed to the sink and
\* the cursor as it was when the call was made.
C10_CancelledPollPropagates ==
    (pawait = "getUpdates" /\ poutcome = "CancelledError") =>
        /\ ppc = "idle"
        /\ pexit = "CancelledError"
        /\ ~cooled
        /\ submitted = <<>>
        /\ acked = 0
        /\ offset = req_offset

\* C10 witness: a poll cancelled after an earlier iteration moved the cursor
C10_Witness ==
    /\ pawait = "getUpdates"
    /\ poutcome = "CancelledError"
    /\ pexit = "CancelledError"
    /\ req_offset > 0

(* ----------------------- properties of execute_send -------------------- *)

\* number of calls the text accounts for
TextCalls(s) == IF message[s] THEN 1 ELSE 0

\* the attachments of invocation s, as the loop sees them
Atts(s) == as_tuple(attachments[s])

\* the attachment is a new Attachment whose alias-resolved type cannot be uploaded
UnsupportedUpload(a) ==
    /\ a.cls = "Attachment"
    /\ ~a.uploaded
    /\ alias_get(a.type) \notin SUPPORTED_ATTACHMENT_TYPES

\* call c is the send call for attachment a
CallIsFor(c, a) ==
    /\ a.cls = "Attachment"
    /\ c.field = alias_get(a.type)
    /\ c.by = (IF a.uploaded THEN "id" ELSE "file")
    /\ c.method # sendMessage

\* C2: the calls an invocation has issued are, at any moment, the text call
\* (when there is text) followed by the calls for the first attachments in
\* input order, one each; an invocation that returned has issued exactly
\* 1 + n calls with text and n without, and got an answer to each.
C2_CallsInInputOrder ==
    /\ Len(calls[1]) <= TextCalls(1) + Len(Atts(1))
    /\ (message[1] /\ calls[1] # <<>>) =>
          calls[1][1] = [method |-> sendMessage, field |-> text, by |-> "text"]
    /\ \A k \in 1..Len(Atts(1)) :
          k + TextCalls(1) <= Len(calls[1]) =>
              CallIsFor(calls[1][k + TextCalls(1)], Atts(1)[k])
    /\ spc[1] = "done" =>
          /\ Len(calls[1]) = TextCalls(1) + Len(Atts(1))
          /\ Len(result[1]) = Len(calls[1])

\* C2 witness: text and two different attachments, all sent
C2_Witness ==
    /\ spc[1] = "done"
    /\ message[1]
    /\ Len(Atts(1)) = 2
    /\ alias_get(Atts(1)[1].type) # alias_get(Atts(1)[2].type)
    /\ Len(calls[1]) = 3

\* an invocation is inside the pacing gate: in an outbound call or in the
\* pause after it
InGate(s) == spc[s] \in {"request", "sleep"}

\* C3: once on_start has created the lock, at most one execute_send
\* invocation is inside the pacing gate, and it holds the lock.
C3_OneInvocationInGate ==
    /\ \A s, t \in Senders : (InGate(s) /\ InGate(t)) => s = t
    /\ \A s \in Senders : InGate(s) => (locked /\ start_pc = "started")

\* C3 witness: one invocation in the gate while another waits for it
C3_Witness ==
    \E s, t \in Senders :
        /\ s # t
        /\ InGate(s)
        /\ spc[t] = "acquire"

\* C4: every send-class call is followed by a full pacing pause before the
\* gate is released and before the next send-class call goes out.
C4_PauseAfterEveryCall ==
    /\ ~locked => wire_last # "call"
    /\ wire_before_call # "call"

\* C5 as stated: an invocation that failed on an attachment that cannot be
\* uploaded has issued no outbound call.
C5_UnsupportedUploadNoCalls ==
    (/\ spc[1] = "raised"
     /\ serr[1] = "ValueError"
     /\ si[1] \in 1..Len(Atts(1))
     /\ UnsupportedUpload(Atts(1)[si[1]]))
        => calls[1] = <<>>

\* C5 as amended: no call is ever made to upload an attachment of an
\* unsupported type; the invocation that reaches one fails with the
\* ValueError having issued exactly the text call (if any) and the calls
\* for the attachments before it, so none when it is the first thing to send;
\* an invocation that returned carried no such attachment.
C5_UnsupportedUploadNoCallForIt ==
    /\ \A k \in DOMAIN calls[1] :
          calls[1][k].by = "file" => calls[1][k].field \in SUPPORTED_ATTACHMENT_TYPES
    /\ (/\ spc[1] = "raised"
        /\ serr[1] = "ValueError"
        /\ si[1] \in 1..Len(Atts(1))
        /\ UnsupportedUpload(Atts(1)[si[1]]))
          => /\ Len(calls[1]) = TextCalls(1) + si[1] - 1
             /\ (~message[1] /\ si[1] = 1) => calls[1] = <<>>
    /\ spc[1] = "done" => \A k \in DOMAIN Atts(1) : ~UnsupportedUpload(Atts(1)[k])

\* C5 witness: text and one attachment were sent before the upload that failed
C5_Witness ==
    /\ spc[1] = "raised"
    /\ serr[1] = "ValueError"
    /\ message[1]
    /\ si[1] = 2
    /\ Len(Atts(1)) = 2
    /\ UnsupportedUpload(Atts(1)[2])
    /\ Len(calls[1]) = 2

(* ------------------- properties of the whole adapter ------------------- *)

\* C9 as stated: the cursor keeps the value it had when the iteration began
\* while an item of the batch is still to be delivered, and no step other
\* than the ingestion loop's changes it.
C9_CursorMovesAfterWholeBatch ==
    [][/\ ppc' = "submit_update" => offset' = req_offset'
       /\ offset' # offset => ppc = "submit_update"]_vars

\* C9 as amended: the cursor is changed only by the ingestion loop, and only
\* by the assignment that follows the return of the sink call for an item
\* (per item, not per batch); the steps of execute_send, execute_request,
\* on_start and on_shutdown leave it as it is.
C9_CursorMovesOnlyAfterItem ==
    [][offset' # offset =>
          /\ ppc = "submit_update"
          /\ acked' = acked + 1
          /\ offset' = response[idx].update_id + 1
          /\ <<spc, rpc, start_pc, stop_pc>>' = <<spc, rpc, start_pc, stop_pc>>]_vars

\* C9 witness: the cursor has moved in the middle of a batch, after
\* execute_send, execute_request, on_start and on_shutdown all ran
C9_Witness ==
    /\ ppc = "submit_update"
    /\ acked = 1
    /\ offset # req_offset
    /\ spc[1] = "done"
    /\ calls[1] # <<>>
    /\ rpc = "done"
    /\ start_pc = "started"
    /\ stop_pc = "stopped"

(* ------------------------------- C11 ------------------------------- *)

\* the getUpdates call of the current iteration ended in a decode or a
\* transport failure
PollAbsorbed ==
    /\ pawait = "getUpdates"
    /\ poutcome \in {"JSONDecodeError", "ClientError"}

\* C11: a decode or transport failure of the getUpdates call is absorbed: the
\* iteration has returned normally, with no second request, no cooldown pause
\* and no call of the sink, the cursor holds the value the request was made
\* with, and the next iteration polls with that same offset.
C11_DecodeOrTransportFailureAbsorbed ==
    [][PollAbsorbed =>
          /\ ppc = "idle"
          /\ pexit = "return"
          /\ ~cooled
          /\ submitted = <<>>
          /\ acked = 0
          /\ offset = req_offset
          /\ ppc' = "getUpdates" => req_offset' = req_offset]_vars

\* a transport failure of a poll made with a cursor that had already moved
C11_Witness ==
    /\ PollAbsorbed
    /\ poutcome = "ClientError"
    /\ pexit = "return"
    /\ req_offset > 0

(* ------------------------------- C12 ------------------------------- *)

\* the iteration met a failure that is neither a decode or transport failure
\* nor a cancellation: a non-ok envelope for getUpdates, an exception of
\* _make_update, or an exception of the sink
UnexpectedFailure ==
    \/ pawait = "getUpdates" /\ poutcome = "RequestException"
    \/ pawait = "submit_update" /\ poutcome = "SinkError"
    \/ pexit = "KeyError"

\* C12 as stated: every unexpected failure of an iteration (non-ok envelope,
\* failure while normalizing an item, failure raised by the sink) is followed
\* by the cooldown pause and a normal return; none propagates out of
\* acquire_updates.
C12_UnexpectedFailureCooledDown ==
    (ppc = "idle" /\ UnexpectedFailure /\ pexit # "CancelledError") =>
        /\ cooled
        /\ pexit = "return"

\* C12: only a failure of the getUpdates call is handled. A non-ok envelope
\* leads to the cooldown pause, with the sink not called and the cursor not
\* moved, and then to a normal return unless the pause itself is cancelled;
\* nothing else is ever followed by the pause. A failure while normalizing an
\* item and a failure raised by the sink leave acquire_updates as exceptions,
\* with no pause.
C12_OnlyRequestFailureCooledDown ==
    /\ (pawait = "getUpdates" /\ poutcome = "RequestException") =>
          /\ \/ ppc = "sleep" /\ pexit = "none" /\ ~cooled
             \/ ppc = "idle" /\ pexit = "return" /\ cooled
             \/ ppc = "idle" /\ pexit = "CancelledError" /\ ~cooled
          /\ submitted = <<>>
          /\ offset = req_offset
    /\ (cooled \/ ppc = "sleep") => (pawait = "getUpdates" /\ poutcome = "RequestException")
    /\ (pawait = "submit_update" /\ poutcome = "SinkError") =>
          (ppc = "idle" /\ pexit = "SinkError" /\ ~cooled)
    /\ pexit = "KeyError" =>
          /\ ppc = "idle"
          /\ ~cooled
          /\ _make_update_raises(response[idx])
          /\ Len(submitted) = idx - 1

\* a non-ok envelope for getUpdates, answered by the pause and a normal return
C12_Witness ==
    /\ pawait = "getUpdates"
    /\ poutcome = "RequestException"
    /\ cooled
    /\ pexit = "return"
    /\ req_offset > 0

(* ------------------------------- C13 ------------------------------- *)

\* C13: polling and administrative requests never wait for the pacing lock.
\* While an execute_send is inside the gate, in its call or in its pause,
\* acquire_updates and execute_request can start their provider call and the
\* call can complete; and while a long poll is pending, an execute_send that
\* finds the lock created enters the gate at once.
C13_PollAndRequestBypassGate ==
    /\ (InGate(1) /\ stop_pc = "running") =>
          /\ ppc = "idle" => ENABLED acquire_updates_call
          /\ rpc = "idle" => ENABLED execute_request_call
    /\ InGate(1) =>
          /\ ppc = "getUpdates" => ENABLED getUpdates_ok(FewBatches)
          /\ rpc = "request" => ENABLED execute_request_end
    /\ (ppc = "getUpdates" /\ spc[1] = "idle" /\ api_messages_lock = "Lock"
            /\ stop_pc = "running") =>
          ENABLED (execute_send_call(1, FewSendArgs) /\ spc'[1] # "acquire")

\* a long poll and an administrative request both in flight while an
\* execute_send sleeps inside the gate
C13_Witness ==
    /\ spc[1] = "sleep"
    /\ locked
    /\ ppc = "getUpdates"
    /\ rpc = "request"

(* ------------------------------- C14 ------------------------------- *)

\* C14: once on_shutdown has been invoked it has completed without error; an
\* adapter constructed without a session has had its own session closed,
\* also when no request was made before, and a session that was supplied at
\* construction is still open.
C14_ShutdownClosesOwnSessionOnly ==
    stop_pc # "running" =>
        /\ stop_pc = "stopped"
        /\ is_session_local => session = "closed"
        /\ ~is_session_local => session = "open"

(* ---------------------- properties of the normalizer -------------------- *)

\* the step in which acquire_updates normalizes an item (line 244); the
\* username the normalizer reads is the one of the state before the step
Normalizes == Len(submitted') = Len(submitted) + 1

\* the update normalized by the step, and the raw message it was made from
Normalized == submitted'[Len(submitted')]

RawMessage == Normalized.raw.body

\* C15: as long as on_start has not stored the username, mention scrubbing
\* does nothing: every group-chat update normalized in that state, whatever
\* its text, is emitted with its raw text unchanged and without the
\* explicit-mention flag.
C15_ScrubbingInertBeforeLogin ==
    [][(Normalizes /\ username = "none" /\ Normalized.receiver_type = "MULTI") =>
          /\ Normalized.text = RawMessage.text
          /\ ~Normalized.bot_mentioned]_vars

(* ------------------------------- C16 ------------------------------- *)

\* the message "<command> hello" of a chat, with the bot_command entity the
\* provider declares for the command
CommandHello(chat, command) ==
    [kind |-> "message", chat |-> chat, text |-> command \o hello,
     entities |-> <<[type |-> "bot_command", offset |-> 0, length |-> Len(command)]>>]

\* C16 as stated: with the username mybot, the private-chat update with text
\* "/start@mybot hello" is normalized to the text "/start hello" with the
\* explicit-mention flag set, and the same update addressed to otherbot keeps
\* its text and gets no flag.
C16_PrivateChatMentionScrubbed ==
    [][(Normalizes /\ username = "mybot") =>
          /\ RawMessage = CommandHello("private", start_mybot) =>
                /\ Normalized.text = slash_start \o hello
                /\ Normalized.bot_mentioned
          /\ RawMessage = CommandHello("private", start_otherbot) =>
                /\ Normalized.text = start_otherbot \o hello
                /\ ~Normalized.bot_mentioned]_vars

\* C16: with the username mybot, the group-chat update with text
\* "/start@mybot hello" is normalized to the text "/start hello" with the
\* explicit-mention flag set, and the same update addressed to otherbot keeps
\* its text and gets no flag; in a private chat both updates keep their text
\* and get no flag.
C16_GroupChatMentionScrubbed ==
    [][(Normalizes /\ username = "mybot") =>
          /\ RawMessage = CommandHello("group", start_mybot) =>
                /\ Normalized.receiver_type = "MULTI"
                /\ Normalized.text = slash_start \o hello
                /\ Normalized.bot_mentioned
          /\ RawMessage = CommandHello("group", start_otherbot) =>
                /\ Normalized.receiver_type = "MULTI"
                /\ Normalized.text = start_otherbot \o hello
                /\ ~Normalized.bot_mentioned
          /\ \A command \in {start_mybot, start_otherbot} :
                RawMessage = CommandHello("private", command) =>
                    /\ Normalized.receiver_type = "SOLO"
                    /\ Normalized.text = command \o hello
                    /\ ~Normalized.bot_mentioned]_vars

\* "/start@mybot hello" of a group chat, delivered as "/start hello"
C16_Witness ==
    /\ submitted # <<>>
    /\ submitted[1].raw.body = CommandHello("group", start_mybot)
    /\ submitted[1].text = slash_start \o hello
    /\ submitted[1].bot_mentioned
    /\ acked = 1

(* ------------------------------- C17 ------------------------------- *)

RECURSIVE char_index(_, _)
\* the number of characters of t that make up its first u UTF-16 code units
char_index(t, u) ==
    IF u <= 0 \/ t = <<>> THEN 0
    ELSE 1 + char_index(Tail(t), u - utf16_len(<<Head(t)>>))

\* the characters of msg.text that entity number k covers, first and last
FirstChar(msg, k) == char_index(msg.text, msg.entities[k].offset) + 1

LastChar(msg, k) ==
    char_index(msg.text, msg.entities[k].offset + msg.entities[k].length)

Commands(msg) == {k \in DOMAIN msg.entities : msg.entities[k].type = "bot_command"}

\* the command entities of msg whose text ends in "@mybot"
Suffixed(msg) ==
    {k \in Commands(msg) :
        endswith(SubSeq(msg.text, FirstChar(msg, k), LastChar(msg, k)), <<"@">> \o mybot)}

RECURSIVE without(_, _, _)
\* the characters of t from position i on, those at the positions in D left out
without(t, i, D) ==
    IF i > Len(t) THEN <<>>
    ELSE (IF i \in D THEN <<>> ELSE <<t[i]>>) \o without(t, i + 1, D)

\* msg.text without the "@mybot" at the end of each command that carries it
Scrubbed(msg) ==
    without(msg.text, 1,
            UNION {(LastChar(msg, k) - Len(mybot))..LastChar(msg, k) : k \in Suffixed(msg)})

\* C17: after login, a group-chat update is emitted with exactly the
\* "@mybot" suffix of each command entity that carries it removed, everything
\* else verbatim and in order, and the explicit-mention flag is set exactly
\* when a suffix was removed; without command entities the text is the raw
\* text.
C17_ExactlyOwnSuffixesRemoved ==
    [][(Normalizes /\ username = "mybot" /\ Normalized.receiver_type = "MULTI") =>
          /\ Normalized.text = Scrubbed(RawMessage)
          /\ Normalized.bot_mentioned <=> Suffixed(RawMessage) # {}
          /\ Commands(RawMessage) = {} => Normalized.text = RawMessage.text]_vars

(* ------------------------------- C18 ------------------------------- *)

sendDocument == <<"s", "e", "n", "d", "D", "o", "c", "u", "m", "e", "n", "t">>

sendPhoto == <<"s", "e", "n", "d", "P", "h", "o", "t", "o">>

\* C18: the call issued for an attachment of an alias type is the call issued
\* for the same attachment of the canonical type: "doc" and "document" both
\* go out as sendDocument with the payload field "document", "image" and
\* "photo" both as sendPhoto with the payload field "photo".
C18_AliasSameCallAsCanonical ==
    /\ \A k \in 1..Len(Atts(1)) :
          k + TextCalls(1) <= Len(calls[1]) =>
              LET a == Atts(1)[k]
                  c == calls[1][k + TextCalls(1)]
              IN  /\ a.type \in {doc, document} =>
                        (c.method = sendDocument /\ c.field = document)
                  /\ a.type \in {image, photo} =>
                        (c.method = sendPhoto /\ c.field = photo)
    /\ \A t \in DOMAIN ATTACHMENT_TYPE_ALIASES, u \in BOOLEAN :
          attachment_step([cls |-> "Attachment", type |-> t, uploaded |-> u])
              = attachment_step([cls |-> "Attachment", type |-> ATTACHMENT_TYPE_ALIASES[t],
                                 uploaded |-> u])

\* both aliases sent in one invocation, one uploaded by content
C18_Witness ==
    /\ spc[1] = "done"
    /\ Len(Atts(1)) = 2
    /\ Atts(1)[1].type = doc
    /\ ~Atts(1)[1].uploaded
    /\ Atts(1)[2].type = image
    /\ Len(calls[1]) = TextCalls(1) + 2

(* ------------------------------- C19 ------------------------------- *)

\* C19: the lock is given back on every exit from execute_send. It is held
\* only while some invocation is inside the gate; an invocation that a failed
\* call, an invalid attachment or a cancellation throws out of the gate ends
\* with that exception, with the lock free and its earlier calls as they
\* were, and issues no call afterwards; and every invocation that waits for
\* the lock gets past that wait.
C19_GateReleasedOnEveryExit ==
    /\ [](locked => \E s \in Senders : InGate(s))
    /\ [][\A s \in Senders :
            /\ (InGate(s) /\ spc'[s] = "raised") =>
                  /\ ~locked'
                  /\ serr'[s] # "none"
                  /\ calls'[s] = calls[s]
            /\ spc[s] \in {"raised", "done"} =>
                  (spc'[s] = spc[s] /\ calls'[s] = calls[s])]_vars
    /\ \A t \in Senders : (spc[t] = "acquire") ~> (spc[t] # "acquire")

\* one invocation thrown out of the gate by a failed call, after it had
\* issued a call before, and another one inside the gate
C19_Witness ==
    \E s, t \in Senders :
        /\ s # t
        /\ spc[s] = "raised"
        /\ serr[s] = "RequestException"
        /\ Len(calls[s]) = 2
        /\ InGate(t)
        /\ locked

(* ------------------------------- C20 ------------------------------- *)

\* C20: the username and the lock exist only after on_start has succeeded.
\* Until then, and for good after a failed login, both are unset, and an
\* execute_send invoked in that state has failed without issuing an outbound
\* call; an invocation that failed for want of the lock has issued none,
\* whatever happened later.
C20_NoGateBeforeSuccessfulStart ==
    /\ start_pc # "started" =>
          /\ username = "none"
          /\ api_messages_lock = "none"
          /\ ~locked
          /\ spc[1] \in {"idle", "raised"}
          /\ spc[1] = "raised" => serr[1] = "AttributeError"
          /\ calls[1] = <<>>
          /\ wire_last = "none"
    /\ start_pc = "started" =>
          /\ username = "mybot"
          /\ api_messages_lock = "Lock"
    /\ serr[1] = "AttributeError" =>
          /\ spc[1] = "raised"
          /\ calls[1] = <<>>
          /\ result[1] = <<>>

\* an execute_send with text and attachments, invoked after a failed login
C20_Witness ==
    /\ start_pc = "failed"
    /\ spc[1] = "raised"
    /\ serr[1] = "AttributeError"
    /\ message[1]
    /\ Len(Atts(1)) = 2

====
